---- MODULE Spec2Model ----
(***************************************************************************)
(* Model of dashboard/app.py: a PyShiny Express dashboard with two live    *)
(* feeds.  The primary feed (reactive_calc_combined) appends a simulated   *)
(* temperature reading to a deque(maxlen=5) and is read by four outputs    *)
(* (display_temp, display_time, display_df, display_plot).  The secondary  *)
(* feed (reactive_calc_generate) appends a sample of penguin rows to a     *)
(* deque(maxlen=10) and is read by display_df_two.                         *)
(*                                                                         *)
(* Temperatures are floats with one decimal; they are modelled as integers *)
(* in tenths of a degree.  The floating-point arithmetic of the regression *)
(* is modelled with exact rationals plus one non-finite value (NaN).       *)
(***************************************************************************)
EXTENDS Integers, Sequences, FiniteSets, TLC

VARIABLES
    deque,        \* reactive_value_wrapper's deque: the primary history buffer
    deque2,       \* reactive_value_wrapper_two's deque: the secondary buffer
    now,          \* wall clock, in seconds
    calcValid,    \* whether reactive_calc_combined holds a cached result
    df,           \* the DataFrame object of the cached result
    latest,       \* latest_dictionary_entry of the cached result
    pending,      \* the outputs that are invalidated and have to run
    out,          \* what each output last rendered
    generated,    \* history: every reading generated so far, in order
    epoch,        \* history: number of timer invalidations of the primary feed
    calcRuns,     \* history: number of executions of reactive_calc_combined's body
    returned,     \* history: the triple as the last execution returned it
    seen,         \* history: the triple each output obtained on its last run
    regressed,    \* history: display_plot called linregress in this refresh
    result2,      \* what the last call of reactive_calc_generate produced
    failure2,     \* history: the failure raised inside that call, if any
    appended2     \* history: number of samples appended to the secondary buffer

vars == <<deque, deque2, now, calcValid, df, latest, pending, out, generated,
          epoch, calcRuns, returned, seen, regressed, result2, failure2,
          appended2>>

----------------------------------------------------------------------------
(* Program constants *)

UPDATE_INTERVAL_SECS == 10

DEQUE_SIZE == 5

DEQUE_SIZE_TWO == 10

\* random.uniform(-18, -16) rounded to one decimal, in tenths of a degree
TEMP_LO == -180

TEMP_HI == -160

num_of_rows == 5

(* Bounds of the model *)

\* the primary feed generates at most MaxTicks readings
MaxTicks == 6

\* how many of the possible temperatures a tick draws from
NumTemps == 2

\* the secondary feed appends at most MaxSamples samples
MaxSamples == 11

\* rows of the modelled penguin dataset
NumPenguins == 6

----------------------------------------------------------------------------
(* Helpers *)

Abs(a) == IF a < 0 THEN -a ELSE a

RECURSIVE GCD(_, _)
GCD(a, b) == IF b = 0 THEN a ELSE GCD(b, a % b)

Range(s) == {s[i] : i \in 1..Len(s)}

\* the last n elements of s (all of s when it is shorter)
LastN(s, n) == IF Len(s) <= n THEN s ELSE SubSeq(s, Len(s) - n + 1, Len(s))

----------------------------------------------------------------------------
(* Floats: exact rationals in lowest terms, and NaN for 0/0 *)

NaN == [num |-> 0, den |-> 0]

IsFinite(r) == r.den # 0

Rat(n, d) ==
    IF d = 0 THEN NaN
    ELSE LET g == GCD(Abs(n), Abs(d))
             s == IF d < 0 THEN -1 ELSE 1
         IN  [num |-> (s * n) \div g, den |-> (s * d) \div g]

RatOfInt(n) == Rat(n, 1)

RatAdd(a, b) ==
    IF ~IsFinite(a) \/ ~IsFinite(b) THEN NaN
    ELSE Rat(a.num * b.den + b.num * a.den, a.den * b.den)

RatSub(a, b) ==
    IF ~IsFinite(a) \/ ~IsFinite(b) THEN NaN
    ELSE Rat(a.num * b.den - b.num * a.den, a.den * b.den)

RatMul(a, b) ==
    IF ~IsFinite(a) \/ ~IsFinite(b) THEN NaN
    ELSE Rat(a.num * b.num, a.den * b.den)

\* numpy float division: 0/0 is nan (a warning, not an exception).  x/0 with
\* x # 0 would be inf; it does not arise here, the divisor ssxm being zero
\* only when the dividend ssxym is zero too.
RatDiv(a, b) ==
    IF ~IsFinite(a) \/ ~IsFinite(b) THEN NaN
    ELSE Rat(a.num * b.den, a.den * b.num)

RECURSIVE RatSum(_)
RatSum(s) == IF s = <<>> THEN RatOfInt(0) ELSE RatAdd(Head(s), RatSum(Tail(s)))

RatMean(s) == RatDiv(RatSum(s), RatOfInt(Len(s)))

----------------------------------------------------------------------------
(* Timestamps *)

\* datetime.now().strftime("%Y-%m-%d %H:%M:%S"): a string, to the second
Strftime(t) == [type |-> "str", secs |-> t]

\* pd.to_datetime of such a string: a datetime64 value
ToDatetime(s) == [type |-> "datetime64", secs |-> s.secs]

----------------------------------------------------------------------------
(* The deques and the DataFrames built from them *)

\* faulty variant: a full deque drops its rightmost element
dequeDropsNewest(dq, e, n) ==
    IF Len(dq) >= n THEN Append(SubSeq(dq, 1, Len(dq) - 1), e) ELSE Append(dq, e)

\* faulty variant: a deque without maxlen
dequeUnbounded(dq, e, n) == Append(dq, e)

\* deque(maxlen=n).append(e): a full deque drops its leftmost element
DequeAppend(dq, e, n) ==
    IF Len(dq) >= n THEN Append(Tail(dq), e) ELSE Append(dq, e)

\* pd.DataFrame(deque of dicts): one row per dict, one column per key
DataFrame(dq) ==
    [columns |-> IF dq = <<>> THEN <<>> ELSE <<"temp", "timestamp">>,
     rows    |-> dq]

\* pd.DataFrame(deque of lists): one row per list, the columns are the
\* positions 0 .. len-1 of the list elements
DataFrameOfLists(dq) ==
    [columns |-> IF dq = <<>> THEN <<>>
                 ELSE [i \in 1..Len(dq[1]) |-> ToString(i - 1)],
     rows    |-> dq]

\* pd.DataFrame()
EmptyDataFrame == [columns |-> <<>>, rows |-> <<>>]

\* df.empty
IsEmpty(d) == d.rows = <<>> \/ d.columns = <<>>

----------------------------------------------------------------------------
(* scipy.stats.linregress as display_plot calls it *)

\* The call raises ValueError on empty inputs and on more than one point with
\* identical x values.  Otherwise slope = ssxym / ssxm and intercept =
\* ymean - slope * xmean, with ssxm and ssxym the mean products of the
\* deviations from the means (np.cov with bias=1).
linregress(x, y) ==
    IF Len(x) = 0 \/ Len(y) = 0
    THEN [raised |-> "ValueError: Inputs must not be empty."]
    ELSE IF Len(x) > 1 /\ \A i \in 1..Len(x) : x[i] = x[1]
    THEN [raised |-> "ValueError: all x values are identical"]
    ELSE LET n      == Len(x)
             xmean  == RatMean([i \in 1..n |-> RatOfInt(x[i])])
             ymean  == RatMean([i \in 1..n |-> RatOfInt(y[i])])
             dx(i)  == RatSub(RatOfInt(x[i]), xmean)
             dy(i)  == RatSub(RatOfInt(y[i]), ymean)
             ssxm   == RatMean([i \in 1..n |-> RatMul(dx(i), dx(i))])
             ssxym  == RatMean([i \in 1..n |-> RatMul(dx(i), dy(i))])
             slope  == RatDiv(ssxym, ssxm)
         IN  [raised    |-> "none",
              slope     |-> slope,
              intercept |-> RatSub(ymean, RatMul(slope, xmean))]

----------------------------------------------------------------------------
(* display_plot, after it has fetched the triple *)

\* faulty variant: a constant x sequence
xValsAllZero(n) == [i \in 1..n |-> 0]

\* list(range(len(df)))
x_vals(n) == [i \in 1..n |-> i - 1]

\* [slope * x + intercept for x in x_vals]
best_fit_line(lr, xs) ==
    [i \in 1..Len(xs) |-> RatAdd(RatMul(lr.slope, RatOfInt(xs[i])), lr.intercept)]

\* lines 229-255: the timestamp column is converted in place, the regression
\* is computed and stored in place as a new column, the figure is returned.
\* Nothing catches an exception of linregress: it leaves display_plot.
plot_nonempty(d) ==
    LET n    == Len(d.rows)
        d1   == [d EXCEPT !.rows =
                    [i \in 1..n |-> [d.rows[i] EXCEPT !.timestamp = ToDatetime(@)]]]
        xs   == x_vals(n)
        ys   == [i \in 1..n |-> d1.rows[i].temp]
        lr   == linregress(xs, ys)
        line == best_fit_line(lr, xs)
        d2   == [columns |-> Append(d1.columns, "best_fit_line"),
                 rows    |-> [i \in 1..n |->
                                [temp          |-> d1.rows[i].temp,
                                 timestamp     |-> d1.rows[i].timestamp,
                                 best_fit_line |-> line[i]]]]
    IN  IF lr.raised # "none"
        THEN [raised |-> lr.raised, regressed |-> TRUE,
              fig |-> [kind |-> "error"], df |-> d1]
        ELSE [raised |-> "none", regressed |-> TRUE,
              fig    |-> [kind      |-> "figure",
                          x         |-> [i \in 1..n |-> d2.rows[i].timestamp],
                          y         |-> ys,
                          slope     |-> lr.slope,
                          intercept |-> lr.intercept,
                          trend     |-> line],
              df     |-> d2]

\* faulty variant: display_plot without the emptiness guard
plotUnguarded(d) == plot_nonempty(d)

\* line 228: "if not df.empty"; otherwise the function returns None
plot_of(d) ==
    IF ~IsEmpty(d) THEN plot_nonempty(d)
    ELSE [raised |-> "none", regressed |-> FALSE, fig |-> [kind |-> "None"], df |-> d]

----------------------------------------------------------------------------
(* The primary feed *)

\* the outputs that read reactive_calc_combined
Consumers == {"display_temp", "display_time", "display_df", "display_plot"}

Outputs == Consumers \cup {"display_df_two"}

\* the temperatures a tick may draw when it draws from k of them
Temps(k) ==
    IF k <= 1 THEN {TEMP_LO}
    ELSE {TEMP_LO + i * ((TEMP_HI - TEMP_LO) \div (k - 1)) : i \in 0..(k - 1)}

NoReading == [temp |-> 0, timestamp |-> Strftime(0)]

\* an output that has not read the triple in the current refresh
NotSeen ==
    [epoch |-> 0, run |-> 0, snapshot |-> <<>>, df |-> EmptyDataFrame,
     latest |-> NoReading]

\* faulty variant: the oldest entry of the snapshot taken as the latest
oldestEntry(snapshot, entry) == snapshot[1]

\* line 79: latest_dictionary_entry = new_dictionary_entry
latest_dictionary_entry(snapshot, entry) == entry

\* lines 64-83: the body of reactive_calc_combined.  The snapshot it returns
\* is the deque itself.
calc_body(temp) ==
    LET entry == [temp |-> temp, timestamp |-> Strftime(now)]
        dq    == DequeAppend(deque, entry, DEQUE_SIZE)
    IN  [ran    |-> TRUE,
         entry  |-> entry,
         deque  |-> dq,
         df     |-> DataFrame(dq),
         latest |-> latest_dictionary_entry(dq, entry)]

\* faulty variant: a plain function, its body run on every call
calcUncached(temp) == calc_body(temp)

\* line 59, @reactive.calc(): the body runs when no valid cached result
\* exists; a valid cached result is returned as it is (the same objects).
reactive_calc_combined(temp) ==
    IF calcValid
    THEN [ran |-> FALSE, entry |-> latest, deque |-> deque, df |-> df, latest |-> latest]
    ELSE calc_body(temp)

\* One run of output c: it obtains r from reactive_calc_combined, leaves the
\* DataFrame as dfAfter and renders `rendered`; reg says whether linregress
\* has been called.
Consume(c, r, dfAfter, rendered, reg) ==
    /\ c \in pending
    /\ regressed' = reg
    /\ r.ran => Len(generated) < MaxTicks
    /\ deque' = r.deque
    /\ latest' = r.latest
    /\ df' = dfAfter
    /\ calcValid' = TRUE
    /\ generated' = IF r.ran THEN Append(generated, r.entry) ELSE generated
    /\ calcRuns' = IF r.ran THEN calcRuns + 1 ELSE calcRuns
    /\ returned' = IF r.ran
                   THEN [snapshot |-> r.deque, df |-> r.df, latest |-> r.latest]
                   ELSE returned
    /\ seen' = [seen EXCEPT ![c] =
                    [epoch    |-> epoch + 1,
                     run      |-> IF r.ran THEN calcRuns + 1 ELSE calcRuns,
                     snapshot |-> r.deque,
                     df       |-> r.df,
                     latest   |-> r.latest]]
    /\ pending' = pending \ {c}
    /\ out' = [out EXCEPT ![c] = rendered]
    /\ UNCHANGED <<deque2, now, epoch, result2, failure2, appended2>>

\* lines 192-196
display_temp(temp) ==
    LET r == reactive_calc_combined(temp)
    IN  Consume("display_temp", r, r.df,
                [kind |-> "text", value |-> r.latest.temp, suffix |-> " C"],
                regressed)

\* lines 203-207
display_time(temp) ==
    LET r == reactive_calc_combined(temp)
    IN  Consume("display_time", r, r.df,
                [kind |-> "text", value |-> r.latest.timestamp, suffix |-> ""],
                regressed)

\* lines 212-217
display_df(temp) ==
    LET r == reactive_calc_combined(temp)
    IN  Consume("display_df", r, r.df, [kind |-> "DataGrid", df |-> r.df],
                regressed)

\* lines 222-255
display_plot(temp) ==
    LET r == reactive_calc_combined(temp)
        p == plot_of(r.df)
    IN  Consume("display_plot", r, p.df,
                IF p.raised # "none"
                THEN [kind |-> "error", exc |-> p.raised]
                ELSE p.fig,
                p.regressed)

\* line 62, reactive.invalidate_later(UPDATE_INTERVAL_SECS): the timer set by
\* the last execution of the body fires; the cached result becomes invalid
\* and every output that read it has to run again (the session shows it as
\* recalculating until it has).  `seen` starts over with the new refresh.
TimerFires ==
    /\ calcValid
    /\ Len(generated) < MaxTicks
    /\ now' = now + UPDATE_INTERVAL_SECS
    /\ calcValid' = FALSE
    /\ epoch' = epoch + 1
    /\ pending' = pending \cup Consumers
    /\ out' = [c \in Outputs |->
                 IF c \in Consumers THEN [kind |-> "recalculating"] ELSE out[c]]
    /\ seen' = [c \in Consumers |-> NotSeen]
    /\ regressed' = FALSE
    /\ UNCHANGED <<deque, deque2, df, latest, generated, calcRuns,
                   returned, result2, failure2, appended2>>

----------------------------------------------------------------------------
(* The secondary feed *)

Species == <<"Adelie", "Gentoo", "Chinstrap">>

Islands == <<"Torgersen", "Biscoe", "Dream">>

\* row i of the dataset palmerpenguins.load_penguins() returns, as
\* to_dict(orient='records') gives it
PenguinRow(i) ==
    [species           |-> Species[(i % 3) + 1],
     island            |-> Islands[(i % 3) + 1],
     bill_length_mm    |-> 390 + i,
     bill_depth_mm     |-> 180 + i,
     flipper_length_mm |-> 190 + i,
     body_mass_g       |-> 3700 + 50 * i,
     sex               |-> IF i % 2 = 0 THEN "male" ELSE "female",
     year              |-> 2007]

\* the k-th of the samples penguins_df.sample(n=num_of_rows) may return: the
\* row numbers of its rows (PenguinRow gives the dict of a row)
Sample(k) ==
    [i \in 1..num_of_rows |-> ((k + i - 2) % NumPenguins) + 1]

PenguinColumns ==
    {"species", "island", "bill_length_mm", "body_mass_g", "bill_depth_mm",
     "flipper_length_mm", "sex"}

\* lines 123-130: df.assign with the converted columns
assign_types(d) ==
    [columns |-> d.columns,
     rows    |-> d.rows,
     dtypes  |-> [c \in PenguinColumns |->
                    IF c \in {"species", "island", "sex"} THEN "str" ELSE "numeric"]]

\* lines 105-137: the try block.  loadOk says whether load_penguins succeeds;
\* k chooses the sample.  The deque keeps what was appended before a failure.
generate_try(loadOk, k) ==
    IF ~loadOk
    THEN [raised |-> "load_penguins", deque2 |-> deque2, appended |-> FALSE]
    ELSE IF num_of_rows > NumPenguins
    THEN [raised |-> "ValueError", deque2 |-> deque2, appended |-> FALSE]
    ELSE LET rows == Sample(k)
             dq   == DequeAppend(deque2, rows, DEQUE_SIZE_TWO)
             d    == DataFrameOfLists(dq)
         IN  IF ~(PenguinColumns \subseteq Range(d.columns))
             THEN [raised |-> "KeyError", deque2 |-> dq, appended |-> TRUE]
             ELSE [raised |-> "none", deque2 |-> dq, appended |-> TRUE,
                   value  |-> [kind     |-> "triple",
                               snapshot |-> dq,
                               df       |-> assign_types(d),
                               latest   |-> rows]]

EmptyTriple ==
    [kind |-> "triple", snapshot |-> <<>>, df |-> EmptyDataFrame, latest |-> <<>>]

\* faulty variant: no except clause, the failure leaves the call
generateNoExcept(loadOk, k) ==
    LET t == generate_try(loadOk, k)
    IN  [deque2  |-> t.deque2,
         appended |-> t.appended,
         failure |-> t.raised,
         value   |-> IF t.raised # "none"
                     THEN [kind |-> "raise", exc |-> t.raised]
                     ELSE t.value]

\* lines 103-141: "except Exception" maps every failure of the try block to
\* the empty triple
reactive_calc_generate(loadOk, k) ==
    LET t == generate_try(loadOk, k)
    IN  [deque2  |-> t.deque2,
         appended |-> t.appended,
         failure |-> t.raised,
         value   |-> IF t.raised # "none" THEN EmptyTriple ELSE t.value]

\* lines 268-273
display_df_two(loadOk, k) ==
    LET g == reactive_calc_generate(loadOk, k)
    IN  /\ "display_df_two" \in pending
        /\ g.appended => appended2 < MaxSamples
        /\ appended2' = IF g.appended THEN appended2 + 1 ELSE appended2
        /\ deque2' = g.deque2
        /\ result2' = g.value
        /\ failure2' = g.failure
        /\ out' = [out EXCEPT !["display_df_two"] =
                      IF g.value.kind = "raise"
                      THEN [kind |-> "error", exc |-> g.value.exc]
                      ELSE [kind |-> "DataGrid", df |-> g.value.df]]
        /\ pending' = pending \ {"display_df_two"}
        /\ UNCHANGED <<deque, now, calcValid, df, latest, generated, epoch,
                       calcRuns, returned, seen, regressed>>

\* line 88, reactive.invalidate_later inside display_df_two's run
TimerFiresTwo ==
    /\ "display_df_two" \notin pending
    /\ pending' = pending \cup {"display_df_two"}
    /\ out' = [out EXCEPT !["display_df_two"] = [kind |-> "recalculating"]]
    /\ UNCHANGED <<deque, deque2, now, calcValid, df, latest, generated,
                   epoch, calcRuns, returned, seen, regressed, result2, failure2,
                   appended2>>

----------------------------------------------------------------------------
(* Specifications *)

\* the session has started: both deques are empty, nothing is cached, every
\* output has to run
Init ==
    /\ deque = <<>>
    /\ deque2 = <<>>
    /\ now = 0
    /\ calcValid = FALSE
    /\ df = EmptyDataFrame
    /\ latest = NoReading
    /\ pending = Outputs
    /\ out = [c \in Outputs |-> [kind |-> "unset"]]
    /\ generated = <<>>
    /\ epoch = 0
    /\ calcRuns = 0
    /\ returned = [snapshot |-> <<>>, df |-> EmptyDataFrame, latest |-> NoReading]
    /\ seen = [c \in Consumers |-> NotSeen]
    /\ regressed = FALSE
    /\ result2 = [kind |-> "unset"]
    /\ failure2 = "none"
    /\ appended2 = 0

\* line 65: random.uniform is called when the body runs, and only then; T is
\* the set of temperatures it may give
Draw(T) == IF calcValid THEN {TEMP_LO} ELSE T

\* the primary feed, its temperatures drawn from T
NextTemperature(T) ==
    \/ \E temp \in Draw(T) : display_temp(temp)
    \/ \E temp \in Draw(T) : display_time(temp)
    \/ \E temp \in Draw(T) : display_df(temp)
    \/ \E temp \in Draw(T) : display_plot(temp)
    \/ TimerFires

\* the secondary feed, its samples drawn from the first n
NextPenguin(n) ==
    \/ \E loadOk \in BOOLEAN, k \in 1..n : display_df_two(loadOk, k)
    \/ TimerFiresTwo

NextT == NextTemperature(Temps(NumTemps))

\* the Temperature tab alone
SpecTemperature == Init /\ [][NextT]_vars

\* both feeds together; the temperature and the sample are each drawn from
\* one value, the variety of the readings being SpecTemperature's subject
Next == NextTemperature({TEMP_LO}) \/ NextPenguin(1)

Spec == Init /\ [][Next]_vars

\* display_plot on every DataFrame a buffer of 0 .. DEQUE_SIZE readings gives
InitTrend ==
    \E n \in 0..DEQUE_SIZE : \E ts \in [1..n -> Temps(NumTemps + 1)] :
        LET b == [i \in 1..n |->
                    [temp |-> ts[i],
                     timestamp |-> Strftime(i * UPDATE_INTERVAL_SECS)]]
            l == IF n = 0 THEN NoReading ELSE b[n]
        IN  /\ deque = b
            /\ deque2 = <<>>
            /\ now = n * UPDATE_INTERVAL_SECS
            /\ calcValid = TRUE
            /\ df = DataFrame(b)
            /\ latest = l
            /\ pending = {"display_plot"}
            /\ out = [c \in Outputs |-> [kind |-> "unset"]]
            /\ generated = b
            /\ epoch = 0
            /\ calcRuns = 1
            /\ returned = [snapshot |-> b, df |-> DataFrame(b), latest |-> l]
            /\ seen = [c \in Consumers |-> NotSeen]
            /\ regressed = FALSE
            /\ result2 = [kind |-> "unset"]
            /\ failure2 = "none"
            /\ appended2 = 0

NextTrend == \E temp \in Draw(Temps(NumTemps + 1)) : display_plot(temp)

SpecTrend == InitTrend /\ [][NextTrend]_vars

----------------------------------------------------------------------------
(* Properties of the primary feed, under SpecTemperature *)

Ticks == Len(generated)

Last(sq) == sq[Len(sq)]

Ran(c) == c \notin pending

\* C1: after k >= 1 ticks the buffer holds exactly the last min(k, DEQUE_SIZE)
\* readings generated, oldest first; after DEQUE_SIZE + 1 ticks its first
\* element is the 2nd reading generated.
C1_BufferHoldsLastReadings ==
    /\ deque = LastN(generated, DEQUE_SIZE)
    /\ Len(deque) = (IF Ticks < DEQUE_SIZE THEN Ticks ELSE DEQUE_SIZE)
    /\ \A i \in 1..Len(deque) : deque[i] = generated[Ticks - Len(deque) + i]
    /\ Ticks = DEQUE_SIZE + 1 => deque[1] = generated[2]

C1_Witness ==
    /\ Ticks = DEQUE_SIZE + 1
    /\ deque[1] = generated[2]
    /\ generated[1] \notin Range(deque)
    /\ deque[1].temp # Last(deque).temp

\* C8: the third component of the triple a tick returns is the reading
\* generated in that tick, it is the last element of the returned snapshot,
\* and display_temp and display_time show its value and its timestamp.
C8_LatestIsNewest ==
    /\ calcRuns > 0 =>
          /\ returned.latest = Last(generated)
          /\ returned.snapshot # <<>>
          /\ Last(returned.snapshot) = returned.latest
    /\ Ran("display_temp") =>
          out["display_temp"] =
              [kind |-> "text", value |-> Last(generated).temp, suffix |-> " C"]
    /\ Ran("display_time") =>
          out["display_time"] =
              [kind |-> "text", value |-> Last(generated).timestamp, suffix |-> ""]

C8_Witness ==
    /\ Ticks >= 2
    /\ Ran("display_temp")
    /\ Ran("display_time")
    /\ generated[1].temp # Last(generated).temp
    /\ out["display_temp"].value = Last(generated).temp

\* C9: each refresh generates and appends exactly one reading, whatever the
\* number and the order of the outputs that read the result, and all the
\* outputs of one refresh obtain the same triple.
C9_OneReadingPerRefresh ==
    /\ Ticks = epoch + (IF calcValid THEN 1 ELSE 0)
    /\ calcRuns = Ticks
    /\ \A c \in Consumers : Ran(c) =>
          /\ seen[c].epoch = epoch + 1
          /\ seen[c].run = calcRuns
          /\ seen[c].snapshot = returned.snapshot
          /\ seen[c].latest = returned.latest
    /\ \A c, d \in Consumers : (Ran(c) /\ Ran(d)) =>
          /\ seen[c].run = seen[d].run
          /\ seen[c].snapshot = seen[d].snapshot
          /\ seen[c].latest = seen[d].latest

C9_Witness ==
    /\ epoch >= 1
    /\ \A c \in Consumers : Ran(c)
    /\ Ticks = epoch + 1

\* C10: no output mutates what a refresh exposes: the snapshot and the table
\* (one row per reading, with the reading's value and timestamp only) each
\* output observes are the ones the tick returned.
C10_OutputsSeeWhatTheTickReturned ==
    \A c \in Consumers : Ran(c) =>
        /\ seen[c].snapshot = returned.snapshot
        /\ seen[c].df = returned.df
        /\ seen[c].df = DataFrame(returned.snapshot)

\* C4: on the single-element buffer of the first tick the trend computation
\* does not raise and gives a fit with slope 0.
C4_SinglePointSlopeZero ==
    (Ticks = 1 /\ Ran("display_plot")) =>
        /\ out["display_plot"].kind = "figure"
        /\ out["display_plot"].slope = RatOfInt(0)

----------------------------------------------------------------------------
(* Properties of the two buffers and of the secondary feed, under Spec *)

\* C2: neither buffer ever exceeds its capacity, DEQUE_SIZE entries in the
\* primary and DEQUE_SIZE_TWO in the secondary one, the snapshots the ticks
\* return included.
C2_BuffersWithinCapacity ==
    /\ Len(deque) <= DEQUE_SIZE
    /\ Len(deque2) <= DEQUE_SIZE_TWO
    /\ Len(returned.snapshot) <= DEQUE_SIZE
    /\ \A c \in Consumers : Len(seen[c].snapshot) <= DEQUE_SIZE
    /\ result2.kind = "triple" => Len(result2.snapshot) <= DEQUE_SIZE_TWO

C2_Witness ==
    /\ Ticks > DEQUE_SIZE
    /\ Len(deque) = DEQUE_SIZE
    /\ Len(returned.snapshot) = DEQUE_SIZE
    /\ appended2 > DEQUE_SIZE_TWO
    /\ Len(deque2) = DEQUE_SIZE_TWO

----------------------------------------------------------------------------
(* Properties of the trend computation, under SpecTrend *)

\* the figure display_plot rendered is the least-squares line of the values
\* of the snapshot over their positions: one finite prediction per reading,
\* the i-th being slope * i + intercept, whose residuals satisfy the normal
\* equations; values linear in the position are reproduced
TrendIsLeastSquaresFit ==
    LET f     == out["display_plot"]
        n     == Len(returned.snapshot)
        y(i)  == RatOfInt(returned.snapshot[i].temp)
        res   == [i \in 1..n |-> RatSub(y(i), f.trend[i])]
        step  == returned.snapshot[2].temp - returned.snapshot[1].temp
    IN  /\ f.kind = "figure"
        /\ Len(f.trend) = n
        /\ IsFinite(f.slope) /\ IsFinite(f.intercept)
        /\ \A i \in 1..n :
              f.trend[i] = RatAdd(RatMul(f.slope, RatOfInt(i - 1)), f.intercept)
        /\ RatSum(res) = RatOfInt(0)
        /\ RatSum([i \in 1..n |-> RatMul(RatOfInt(i - 1), res[i])]) = RatOfInt(0)
        /\ (n >= 2 /\ \A i \in 1..n :
                  returned.snapshot[i].temp = returned.snapshot[1].temp + (i - 1) * step)
              => /\ \A i \in 1..n : f.trend[i] = y(i)
                 /\ f.slope = RatOfInt(step)
                 /\ f.intercept = y(1)

\* C3: for every non-empty buffer the trend display_plot computes is the
\* least-squares fit of value over position, one prediction per reading.
C3_TrendIsLeastSquaresFit ==
    (Ran("display_plot") /\ returned.snapshot # <<>>) => TrendIsLeastSquaresFit

\* the same for the buffers of two readings and more
C3_TrendIsLeastSquaresFitFromTwoReadings ==
    (Ran("display_plot") /\ Len(returned.snapshot) >= 2) => TrendIsLeastSquaresFit

\* C5: no failure of the trend computation leaves display_plot: for every
\* buffer the run ends with a figure or with nothing rendered.
C5_NoFailureLeavesDisplayPlot ==
    Ran("display_plot") => out["display_plot"].kind \in {"figure", "None"}

C5_Witness ==
    /\ Ran("display_plot")
    /\ Len(returned.snapshot) = 1
    /\ out["display_plot"].kind = "figure"
    /\ ~IsFinite(out["display_plot"].slope)
    /\ out["display_plot"].trend = <<NaN>>

\* C6: on an empty table display_plot returns nothing, does not call the
\* regression and does not raise.
C6_EmptyBufferNoTrend ==
    (Ran("display_plot") /\ IsEmpty(seen["display_plot"].df)) =>
        /\ out["display_plot"] = [kind |-> "None"]
        /\ ~regressed
        /\ df = seen["display_plot"].df

C6_Witness ==
    /\ Ran("display_plot")
    /\ returned.snapshot = <<>>
    /\ IsEmpty(seen["display_plot"].df)
    /\ out["display_plot"].kind = "None"

====
